---------------------------- MODULE Spec2Model ----------------------------
(***************************************************************************)
(* Model of the template_sql output plugin                                 *)
(* (plugins/outputs/template_sql/sql.go).                                  *)
(*                                                                         *)
(* Strings that the code scans character by character (templates, keys,    *)
(* rewritten SQL) are sequences of one-character strings.  Identifiers     *)
(* handed to quoteIdent are sequences of runes (code points).  Type names  *)
(* of the conversion table are plain strings.                              *)
(***************************************************************************)
EXTENDS Integers, Sequences, FiniteSets, TLC

VARIABLES
    Driver,         \* SQL.Driver
    Queries,        \* SQL.Queries
    DefaultValues,  \* SQL.DefaultValues
    Convert,        \* SQL.Convert
    Log,            \* what SQL.Log.Errorf has been handed, oldest first
    metrics,        \* the argument of Write
    mi,             \* Write: index of the metric of the range loop
    qi,             \* WriteMetric: index of the query of the range loop
    query,          \* generateQuery: its sql parameter as passed in
    valuesMap,      \* WriteMetric / generateQuery: the value mapping
    sql,            \* the sql returned by generateQuery
    values,         \* the argument list returned by generateQuery
    err,            \* the error returned by generateQuery
    txs,            \* the transactions p.db.Begin has handed out
    stmts,          \* the statements tx.Prepare has handed out
    deferred,       \* WriteMetric: the stack of deferred stmt.Close calls
    calls,          \* the calls made on the database, oldest first
    retErr,         \* the error WriteMetric returns
    writeErr,       \* the error Write returns
    name,           \* quoteIdent: its parameter
    quoted,         \* quoteIdent: its result
    value,          \* deriveDatatype: the dynamic type of its parameter
    datatype,       \* deriveDatatype: its result
    pc              \* the position of the single thread of control

vars == <<Driver, Queries, DefaultValues, Convert, Log, metrics, mi, qi, query,
          valuesMap, sql, values, err, txs, stmts, deferred, calls, retErr,
          writeErr, name, quoted, value, datatype, pc>>

-----------------------------------------------------------------------------
(* Bounds of the model *)

MaxLen == 5         \* longest template drawn for generateQuery
MaxIdentLen == 3    \* longest identifier drawn for quoteIdent
MaxBatch == 2       \* longest batch handed to Write
MaxQueries == 2     \* longest list of configured templates

-----------------------------------------------------------------------------
(* Go values *)

\* A nil slice and a slice of elements; append on nil allocates.
NilSlice == [isNil |-> TRUE, elems |-> <<>>]

\* A variant that puts the new element first.
SlicePrepend(s, v) == [isNil |-> FALSE, elems |-> <<v>> \o s.elems]

SliceAppend(s, v) == [isNil |-> FALSE, elems |-> Append(s.elems, v)]

\* The nil error and an error carrying a message.
NilErr == [isNil |-> TRUE, msg |-> <<>>]

Errorf(msg) == [isNil |-> FALSE, msg |-> msg]

\* A map with no entries, and m[k] = v on a map.
EmptyMap == [k \in {} |-> 0]

MapSet(m, k, v) == [x \in (DOMAIN m) \cup {k} |-> IF x = k THEN v ELSE m[x]]

\* range over src assigning every entry into dst.
MapAssignAll(dst, src) ==
    [x \in (DOMAIN dst) \cup (DOMAIN src) |-> IF x \in DOMAIN src THEN src[x] ELSE dst[x]]

-----------------------------------------------------------------------------
(* generateQuery *)

Lower == {"a","b","c","d","e","f","g","h","i","j","k","l","m",
          "n","o","p","q","r","s","t","u","v","w","x","y","z"}

Upper == {"A","B","C","D","E","F","G","H","I","J","K","L","M",
          "N","O","P","Q","R","S","T","U","V","W","X","Y","Z"}

Digits == <<"0","1","2","3","4","5","6","7","8","9">>

\* The character class [a-zA-Z0-9_] of the placeholder pattern.
IdentChars == Lower \cup Upper \cup {Digits[i] : i \in 1..10} \cup {"_"}

IsIdentChar(c) == c \in IdentChars

\* The greedy [a-zA-Z0-9_]* starting at position i: the position after it.
RECURSIVE IdentEnd(_, _)
IdentEnd(s, i) ==
    IF i <= Len(s) /\ IsIdentChar(s[i]) THEN IdentEnd(s, i + 1) ELSE i

\* r.FindAllString(sql, -1) from position i on: the leftmost matches of
\* :[a-zA-Z0-9_]*, non-overlapping, in order.
RECURSIVE FindAllFrom(_, _)
FindAllFrom(s, i) ==
    IF i > Len(s) THEN <<>>
    ELSE IF s[i] = ":"
         THEN <<SubSeq(s, i, IdentEnd(s, i + 1) - 1)>> \o FindAllFrom(s, IdentEnd(s, i + 1))
         ELSE FindAllFrom(s, i + 1)

\* A variant for the pattern :[a-zA-Z0-9_]+, which a bare ':' does not match.
FindAllStringNonEmpty(s) == SelectSeq(FindAllFrom(s, 1), LAMBDA m : Len(m) > 1)

FindAllString(s) == FindAllFrom(s, 1)

\* strconv.Itoa for n >= 0
RECURSIVE Itoa(_)
Itoa(n) ==
    IF n < 10 THEN <<Digits[n + 1]>> ELSE Itoa(n \div 10) \o <<Digits[(n % 10) + 1]>>

\* A variant that numbers the markers from 0.
PgxMarkerZeroBased(i) == <<"$">> \o Itoa(i - 1)

\* The closure handed to ReplaceAllStringFunc, after its i++ made the counter i.
PgxMarker(i) == <<"$">> \o Itoa(i)

\* r.ReplaceAllStringFunc(sql, func) with the closure's counter at n, from
\* position i on.
RECURSIVE ReplacePgxFrom(_, _, _)
ReplacePgxFrom(s, i, n) ==
    IF i > Len(s) THEN <<>>
    ELSE IF s[i] = ":"
         THEN PgxMarker(n + 1) \o ReplacePgxFrom(s, IdentEnd(s, i + 1), n + 1)
         ELSE <<s[i]>> \o ReplacePgxFrom(s, i + 1, n)

\* r.ReplaceAllString(sql, "?") from position i on.
RECURSIVE ReplaceQFrom(_, _)
ReplaceQFrom(s, i) ==
    IF i > Len(s) THEN <<>>
    ELSE IF s[i] = ":"
         THEN <<"?">> \o ReplaceQFrom(s, IdentEnd(s, i + 1))
         ELSE <<s[i]>> \o ReplaceQFrom(s, i + 1)

\* The rewriting of the template, by driver.
Rewrite(driver, s) ==
    IF driver = "pgx" THEN ReplacePgxFrom(s, 1, 0) ELSE ReplaceQFrom(s, 1)

\* A variant that skips a match whose key the mapping lacks.
RECURSIVE LookupLoopSkipping(_, _, _)
LookupLoopSkipping(ms, vm, vs) ==
    IF ms = <<>> THEN [values |-> vs, err |-> NilErr]
    ELSE LET key == Tail(Head(ms))
         IN  IF key \notin DOMAIN vm
             THEN LookupLoopSkipping(Tail(ms), vm, vs)
             ELSE LookupLoopSkipping(Tail(ms), vm, SliceAppend(vs, vm[key]))

\* The loop over the matches: the values collected so far are vs, the
\* matches still to look up are ms.
RECURSIVE LookupLoop(_, _, _)
LookupLoop(ms, vm, vs) ==
    IF ms = <<>> THEN [values |-> vs, err |-> NilErr]
    ELSE LET key == Tail(Head(ms))
         IN  IF key \notin DOMAIN vm
             THEN [values |-> NilSlice, err |-> Errorf(key \o <<" not found in metric">>)]
             ELSE LookupLoop(Tail(ms), vm, SliceAppend(vs, vm[key]))

generateQuery(driver, s, vm) ==
    LET looked == LookupLoop(FindAllString(s), vm, NilSlice)
    IN  IF ~looked.err.isNil
        THEN [sql |-> <<>>, values |-> NilSlice, err |-> looked.err]
        ELSE [sql |-> Rewrite(driver, s), values |-> looked.values, err |-> NilErr]

-----------------------------------------------------------------------------
(* quoteIdent *)

QuoteRune == 34         \* '"'
UnderscoreRune == 95    \* '_'
MinAllowedRune == 1     \* U+0001
MaxAllowedRune == 65535 \* U+FFFF

\* The mapping function handed to strings.Map.
sanitizeRune(r) ==
    IF r >= MinAllowedRune /\ r <= MaxAllowedRune THEN r ELSE UnderscoreRune

\* strings.Map applies the function rune by rune.
sanitizeQuoted(in) == [i \in 1..Len(in) |-> sanitizeRune(in[i])]

\* A variant that leaves the double quotes single.
KeepQuotes(s) == s

\* strings.ReplaceAll(s, `"`, `""`)
RECURSIVE DoubleQuotes(_)
DoubleQuotes(s) ==
    IF s = <<>> THEN <<>>
    ELSE (IF Head(s) = QuoteRune THEN <<QuoteRune, QuoteRune>> ELSE <<Head(s)>>)
         \o DoubleQuotes(Tail(s))

quoteIdent(n) == <<QuoteRune>> \o DoubleQuotes(sanitizeQuoted(n)) \o <<QuoteRune>>

-----------------------------------------------------------------------------
(* deriveDatatype *)

\* The dynamic types the type switch names; any other type takes its default.
SwitchedTypes == {"int64", "uint64", "float64", "string", "bool"}

\* The result and the messages logged, for a value of dynamic type t.
deriveDatatype(conv, t) ==
    IF t = "int64" THEN [datatype |-> conv.Integer, logged |-> <<>>]
    ELSE IF t = "uint64" THEN
        IF conv.ConversionStyle = "unsigned_suffix"
        THEN [datatype |-> conv.Integer \o " " \o conv.Unsigned, logged |-> <<>>]
        ELSE IF conv.ConversionStyle = "literal"
        THEN [datatype |-> conv.Unsigned, logged |-> <<>>]
        ELSE [datatype |-> "",
              logged |-> <<"unknown conversion style: " \o conv.ConversionStyle>>]
    ELSE IF t = "float64" THEN [datatype |-> conv.Real, logged |-> <<>>]
    ELSE IF t = "string" THEN [datatype |-> conv.Text, logged |-> <<>>]
    ELSE IF t = "bool" THEN [datatype |-> conv.Bool, logged |-> <<>>]
    ELSE [datatype |-> conv.Defaultvalue,
          logged |-> <<"Unknown datatype: " \o t>>]

\* The conversion table newSQL installs.
newSQLConvert ==
    [Integer |-> "INT", Real |-> "DOUBLE", Text |-> "TEXT", Timestamp |-> "TIMESTAMP",
     Defaultvalue |-> "TEXT", Unsigned |-> "UNSIGNED", Bool |-> "BOOL",
     ConversionStyle |-> "unsigned_suffix"]

-----------------------------------------------------------------------------
(* WriteMetric: the value mapping *)

KeyMetric == <<"m","e","t","r","i","c">>

KeyTimestamp == <<"t","i","m","e","s","t","a","m","p">>

\* A variant that assigns the tags after the fields.
BuildValuesMapTagsLast(defaults, metric) ==
    LET m0 == MapSet(EmptyMap, KeyMetric, metric.name)
        m1 == MapSet(m0, KeyTimestamp, metric.tm)
        m2 == MapAssignAll(m1, defaults)
        m3 == MapAssignAll(m2, metric.fields)
    IN  MapAssignAll(m3, metric.tags)

\* The mapping built at the top of every iteration of the loop over the
\* queries: built-ins, then defaults, then tags, then fields.
BuildValuesMap(defaults, metric) ==
    LET m0 == MapSet(EmptyMap, KeyMetric, metric.name)
        m1 == MapSet(m0, KeyTimestamp, metric.tm)
        m2 == MapAssignAll(m1, defaults)
        m3 == MapAssignAll(m2, metric.tags)
    IN  MapAssignAll(m3, metric.fields)

-----------------------------------------------------------------------------
(* The database behind p.db *)

\* The error a failing driver call returns.
DriverErr == Errorf(<<"driver error">>)

\* fmt.Errorf("<phase> failed: %w", err)
Wrap(phase, e) == Errorf(<<phase \o " failed: ">> \o e.msg)

\* A record of one call made on the database while metric m, query q is
\* being written.
Call(op, m, q, s, args, ok) ==
    [op |-> op, m |-> m, q |-> q, sql |-> s, args |-> args, ok |-> ok]

-----------------------------------------------------------------------------
(* Write and WriteMetric, one action per step *)

wmLocals == <<query, valuesMap, sql, values, err>>

config == <<Driver, Queries, DefaultValues, Convert>>

dbState == <<txs, stmts, deferred, calls>>

pureState == <<Log, name, quoted, value, datatype>>

\* Write: the head of the loop over the metrics; calls WriteMetric or returns nil.
WriteLoop ==
    /\ pc = "Write"
    /\ IF mi <= Len(metrics)
       THEN /\ qi' = 1
            /\ deferred' = <<>>
            /\ pc' = "WriteMetric"
            /\ UNCHANGED writeErr
       ELSE /\ writeErr' = NilErr
            /\ pc' = "done"
            /\ UNCHANGED <<qi, deferred>>
    /\ UNCHANGED <<config, pureState, metrics, mi, wmLocals, txs, stmts, calls, retErr>>

\* WriteMetric: the head of the loop over the queries; builds the value
\* mapping, compiles the query and picks the way to execute it.
WriteMetricLoop ==
    /\ pc = "WriteMetric"
    /\ IF qi <= Len(Queries)
       THEN LET vm == BuildValuesMap(DefaultValues, metrics[mi])
                gq == generateQuery(Driver, Queries[qi], vm)
            IN  /\ query' = Queries[qi]
                /\ valuesMap' = vm
                /\ sql' = gq.sql
                /\ values' = gq.values
                /\ err' = gq.err
                /\ IF ~gq.err.isNil
                   THEN /\ retErr' = gq.err
                        /\ pc' = "Return"
                   ELSE /\ pc' = IF Driver = "clickhouse" THEN "Begin" ELSE "Exec"
                        /\ UNCHANGED retErr
       ELSE /\ retErr' = NilErr
            /\ pc' = "Return"
            /\ UNCHANGED wmLocals
    /\ UNCHANGED <<config, pureState, metrics, mi, qi, dbState, writeErr>>

\* tx, err := p.db.Begin()
Begin ==
    /\ pc = "Begin"
    /\ \E ok \in BOOLEAN :
        /\ calls' = Append(calls, Call("Begin", mi, qi, <<>>, NilSlice, ok))
        /\ IF ok
           THEN /\ txs' = Append(txs, "open")
                /\ pc' = "Prepare"
                /\ UNCHANGED retErr
           ELSE /\ retErr' = Wrap("begin", DriverErr)
                /\ pc' = "Return"
                /\ UNCHANGED txs
    /\ UNCHANGED <<config, pureState, metrics, mi, qi, wmLocals, stmts, deferred, writeErr>>

\* stmt, err := tx.Prepare(sql); defer stmt.Close()
Prepare ==
    /\ pc = "Prepare"
    /\ \E ok \in BOOLEAN :
        /\ calls' = Append(calls, Call("Prepare", mi, qi, sql, NilSlice, ok))
        /\ IF ok
           THEN /\ stmts' = Append(stmts, [tx |-> Len(txs), closed |-> FALSE])
                /\ deferred' = Append(deferred, Len(stmts) + 1)
                /\ pc' = "StmtExec"
                /\ UNCHANGED retErr
           ELSE /\ retErr' = Wrap("prepare", DriverErr)
                /\ pc' = "Return"
                /\ UNCHANGED <<stmts, deferred>>
    /\ UNCHANGED <<config, pureState, metrics, mi, qi, wmLocals, txs, writeErr>>

\* _, err = stmt.Exec(values...)
StmtExec ==
    /\ pc = "StmtExec"
    /\ \E ok \in BOOLEAN :
        /\ calls' = Append(calls, Call("StmtExec", mi, qi, sql, values, ok))
        /\ IF ok
           THEN /\ pc' = "Commit"
                /\ UNCHANGED retErr
           ELSE /\ retErr' = Wrap("execution", DriverErr)
                /\ pc' = "Return"
    /\ UNCHANGED <<config, pureState, metrics, mi, qi, wmLocals, txs, stmts, deferred, writeErr>>

\* err = tx.Commit(); a Commit that fails ends the transaction all the same.
Commit ==
    /\ pc = "Commit"
    /\ \E ok \in BOOLEAN :
        /\ calls' = Append(calls, Call("Commit", mi, qi, <<>>, NilSlice, ok))
        /\ IF ok
           THEN /\ txs' = [txs EXCEPT ![Len(txs)] = "committed"]
                /\ qi' = qi + 1
                /\ pc' = "WriteMetric"
                /\ UNCHANGED retErr
           ELSE /\ txs' = [txs EXCEPT ![Len(txs)] = "commitFailed"]
                /\ retErr' = Wrap("commit", DriverErr)
                /\ pc' = "Return"
                /\ UNCHANGED qi
    /\ UNCHANGED <<config, pureState, metrics, mi, wmLocals, stmts, deferred, writeErr>>

\* _, err = p.db.Exec(sql, values...)
Exec ==
    /\ pc = "Exec"
    /\ \E ok \in BOOLEAN :
        /\ calls' = Append(calls, Call("Exec", mi, qi, sql, values, ok))
        /\ IF ok
           THEN /\ qi' = qi + 1
                /\ pc' = "WriteMetric"
                /\ UNCHANGED retErr
           ELSE /\ retErr' = Wrap("execution", DriverErr)
                /\ pc' = "Return"
                /\ UNCHANGED qi
    /\ UNCHANGED <<config, pureState, metrics, mi, wmLocals, txs, stmts, deferred, writeErr>>

\* A variant that closes only the statement deferred last.
RunDeferredLastOnly(ds, st) ==
    IF ds = <<>> THEN st ELSE [st EXCEPT ![ds[Len(ds)]].closed = TRUE]

\* The deferred stmt.Close calls, last deferred first.
RECURSIVE RunDeferred(_, _)
RunDeferred(ds, st) ==
    IF ds = <<>> THEN st
    ELSE RunDeferred(SubSeq(ds, 1, Len(ds) - 1),
                     [st EXCEPT ![ds[Len(ds)]].closed = TRUE])

\* WriteMetric returns: its deferred calls run, then Write has the error.
WriteMetricReturn ==
    /\ pc = "Return"
    /\ stmts' = RunDeferred(deferred, stmts)
    /\ deferred' = <<>>
    /\ pc' = "WriteErrCheck"
    /\ UNCHANGED <<config, pureState, metrics, mi, qi, wmLocals, txs, calls, retErr, writeErr>>

\* A variant that drops the error and goes on with the next metric.
WriteErrCheckContinue ==
    /\ pc = "WriteErrCheck"
    /\ mi' = mi + 1
    /\ pc' = "Write"
    /\ UNCHANGED <<config, pureState, metrics, qi, wmLocals, dbState, retErr, writeErr>>

\* Write: if err != nil { return err }, else the next metric.
WriteErrCheck ==
    /\ pc = "WriteErrCheck"
    /\ IF ~retErr.isNil
       THEN /\ writeErr' = retErr
            /\ pc' = "done"
            /\ UNCHANGED mi
       ELSE /\ mi' = mi + 1
            /\ pc' = "Write"
            /\ UNCHANGED writeErr
    /\ UNCHANGED <<config, pureState, metrics, qi, wmLocals, dbState, retErr>>

Next ==
    \/ WriteLoop
    \/ WriteMetricLoop
    \/ Begin
    \/ Prepare
    \/ StmtExec
    \/ Commit
    \/ Exec
    \/ WriteMetricReturn
    \/ WriteErrCheck

-----------------------------------------------------------------------------
(* The inputs *)

\* The maps from some of the keys K to values of V.
Maps(K, V) == UNION {[D -> V] : D \in SUBSET K}

\* The sequences over S of length lo to hi.
SeqsOf(S, lo, hi) == UNION {[1..n -> S] : n \in lo..hi}

KeyA == <<"a">>

KeyB == <<"b">>

\* ":metric", ":a,:b" and ":timestamp :a"
QueryPool ==
    { <<":">> \o KeyMetric,
      <<":","a",",",":","b">>,
      <<":">> \o KeyTimestamp \o <<" ",":","a">> }

MetricPool ==
    { [name |-> "cpu", tm |-> "t1", tags |-> EmptyMap, fields |-> [k \in {KeyA} |-> "fv"]],
      [name |-> "mem", tm |-> "t2", tags |-> [k \in {KeyA} |-> "tv"],
       fields |-> [k \in {KeyB} |-> "fv"]] }

Drivers == {"pgx", "mysql", "clickhouse"}

\* The state of the parts a specification does not exercise.
WriteIdle ==
    /\ metrics = <<>> /\ mi = 0 /\ qi = 0
    /\ Queries = <<>> /\ DefaultValues = EmptyMap
    /\ txs = <<>> /\ stmts = <<>> /\ deferred = <<>> /\ calls = <<>>
    /\ retErr = NilErr /\ writeErr = NilErr

CompileIdle ==
    /\ query = <<>> /\ valuesMap = EmptyMap
    /\ sql = <<>> /\ values = NilSlice /\ err = NilErr

QuoteIdle == name = <<>> /\ quoted = <<>>

DeriveIdle == Convert = newSQLConvert /\ Log = <<>> /\ value = "" /\ datatype = ""

WriteStart ==
    /\ mi = 1 /\ qi = 0
    /\ txs = <<>> /\ stmts = <<>> /\ deferred = <<>> /\ calls = <<>>
    /\ retErr = NilErr /\ writeErr = NilErr
    /\ pc = "Write"

\* Write on a batch of metrics, under each driver.
Init ==
    /\ Driver \in Drivers
    /\ Queries \in SeqsOf(QueryPool, 1, MaxQueries)
    /\ DefaultValues \in Maps({KeyB}, {"dv"})
    /\ metrics \in SeqsOf(MetricPool, 0, MaxBatch)
    /\ WriteStart /\ CompileIdle /\ QuoteIdle /\ DeriveIdle

Spec == Init /\ [][Next]_vars

-----------------------------------------------------------------------------
(* WriteMetric on one metric whose tags, fields and the defaults collide *)

ResolveKeys == {KeyMetric, KeyTimestamp, KeyA}

InitResolve ==
    /\ Driver \in {"mysql", "clickhouse"}
    /\ Queries \in SeqsOf({<<":">> \o KeyMetric, <<":">> \o KeyA}, 1, 1)
    /\ DefaultValues \in Maps(ResolveKeys, {"dv"})
    /\ \E tags \in Maps(ResolveKeys, {"tv"}), fields \in Maps(ResolveKeys, {"fv"}) :
          metrics = <<[name |-> "cpu", tm |-> "t1", tags |-> tags, fields |-> fields]>>
    /\ WriteStart /\ CompileIdle /\ QuoteIdle /\ DeriveIdle

SpecResolve == InitResolve /\ [][Next]_vars

-----------------------------------------------------------------------------
(* generateQuery on its own *)

TemplateChars == {":", "a", "b", ","}

GenKeys == {<<>>, KeyA, KeyB}

CallGenerateQuery ==
    /\ pc = "generateQuery"
    /\ LET gq == generateQuery(Driver, query, valuesMap)
       IN  /\ sql' = gq.sql
           /\ values' = gq.values
           /\ err' = gq.err
    /\ pc' = "done"
    /\ UNCHANGED <<config, pureState, metrics, mi, qi, query, valuesMap, dbState,
                   retErr, writeErr>>

InitGen ==
    /\ Driver \in {"pgx", "mysql"}
    /\ query \in SeqsOf(TemplateChars, 0, MaxLen)
    /\ valuesMap \in Maps(GenKeys, {"v1", "v2"})
    /\ sql = <<>> /\ values = NilSlice /\ err = NilErr
    /\ pc = "generateQuery"
    /\ WriteIdle /\ QuoteIdle /\ DeriveIdle

NextGen == CallGenerateQuery

SpecGen == InitGen /\ [][NextGen]_vars

-----------------------------------------------------------------------------
(* quoteIdent on its own *)

\* NUL, a control character, '"', '_', 'a', U+FFFF, U+10000 and U+1F600.
RunePool == {0, 1, 34, 95, 97, 65535, 65536, 128512}

CallQuoteIdent ==
    /\ pc = "quoteIdent"
    /\ quoted' = quoteIdent(name)
    /\ pc' = "done"
    /\ UNCHANGED <<config, Log, value, datatype, name, metrics, mi, qi, wmLocals,
                   dbState, retErr, writeErr>>

InitQuote ==
    /\ name \in SeqsOf(RunePool, 0, MaxIdentLen)
    /\ quoted = <<>>
    /\ pc = "quoteIdent"
    /\ Driver = "mysql"
    /\ WriteIdle /\ CompileIdle /\ DeriveIdle

NextQuote == CallQuoteIdent

SpecQuote == InitQuote /\ [][NextQuote]_vars

-----------------------------------------------------------------------------
(* deriveDatatype on its own *)

ValueTypes == SwitchedTypes \cup {"time.Time", "int32", "nil"}

ConversionStyles == {"unsigned_suffix", "literal", "", "suffix"}

CallDeriveDatatype ==
    /\ pc = "deriveDatatype"
    /\ LET d == deriveDatatype(Convert, value)
       IN  /\ datatype' = d.datatype
           /\ Log' = Log \o d.logged
    /\ pc' = "done"
    /\ UNCHANGED <<config, value, name, quoted, metrics, mi, qi, wmLocals, dbState,
                   retErr, writeErr>>

InitDerive ==
    /\ \E style \in ConversionStyles, dflt \in {"TEXT", "BLOB"},
          int \in {"INT", "BIGINT"}, uns \in {"UNSIGNED", "BIGINT UNSIGNED"} :
          Convert = [newSQLConvert EXCEPT !.ConversionStyle = style,
                                          !.Defaultvalue = dflt,
                                          !.Integer = int,
                                          !.Unsigned = uns]
    /\ value \in ValueTypes
    /\ Log = <<>> /\ datatype = ""
    /\ pc = "deriveDatatype"
    /\ Driver = "mysql"
    /\ WriteIdle /\ CompileIdle /\ QuoteIdle

NextDerive == CallDeriveDatatype

SpecDerive == InitDerive /\ [][NextDerive]_vars

-----------------------------------------------------------------------------
(* Placeholder occurrences, stated position by position *)

\* Every ':' starts an occurrence: an occurrence never swallows a ':'.
OccStarts(s) == {i \in 1..Len(s) : s[i] = ":"}

\* The last position of the occurrence starting at i.
OccEnd(s, i) ==
    CHOOSE j \in i..Len(s) :
        /\ \A k \in (i + 1)..j : IsIdentChar(s[k])
        /\ j = Len(s) \/ ~IsIdentChar(s[j + 1])

OccKey(s, i) == SubSeq(s, i + 1, OccEnd(s, i))

\* The 1-based rank of the occurrence starting at i, left to right.
Ordinal(s, i) == Cardinality({j \in OccStarts(s) : j <= i})

NthOcc(s, n) == CHOOSE i \in OccStarts(s) : Ordinal(s, i) = n

AllKeysPresent(s, vm) == \A i \in OccStarts(s) : OccKey(s, i) \in DOMAIN vm

ReferencedKeys(s) == {OccKey(s, i) : i \in OccStarts(s)}

Restrict(vm, K) == [k \in (DOMAIN vm) \cap K |-> vm[k]]

\* C1: with every referenced key in the mapping, generateQuery succeeds with
\* one argument per placeholder occurrence, the i-th being the mapping's
\* value for the key of the i-th occurrence (repeated keys repeat their
\* value), and the unreferenced keys of the mapping change nothing.
C1_ArgsFollowOccurrences ==
    (pc = "done" /\ AllKeysPresent(query, valuesMap)) =>
        /\ err.isNil
        /\ Len(values.elems) = Cardinality(OccStarts(query))
        /\ \A n \in 1..Len(values.elems) :
              values.elems[n] = valuesMap[OccKey(query, NthOcc(query, n))]
        /\ LET only == generateQuery(Driver, query, Restrict(valuesMap, ReferencedKeys(query)))
           IN  only.sql = sql /\ only.values = values /\ only.err = err

\* ":a::a" with a and "" mapped to different values and b mapped but unused.
C1_Witness ==
    /\ pc = "done"
    /\ query = <<":", "a", ":", ":", "a">>
    /\ <<>> \in DOMAIN valuesMap
    /\ KeyA \in DOMAIN valuesMap /\ KeyB \in DOMAIN valuesMap
    /\ valuesMap[KeyA] = "v1" /\ valuesMap[<<>>] = "v2"
    /\ err.isNil
    /\ values.elems = <<"v1", "v2", "v1">>

\* The marker the n-th occurrence is to become.
MarkerFor(driver, n) == IF driver = "pgx" THEN <<"$">> \o Itoa(n) ELSE <<"?">>

\* Position p is inside an occurrence, after its ':'.
InsideOcc(s, p) == \E i \in OccStarts(s) : i < p /\ p <= OccEnd(s, i)

\* What position p of the template contributes to the rewritten SQL.
PieceAt(driver, s, p) ==
    IF s[p] = ":" THEN MarkerFor(driver, Ordinal(s, p))
    ELSE IF InsideOcc(s, p) THEN <<>>
    ELSE <<s[p]>>

RECURSIVE JoinPieces(_, _, _)
JoinPieces(driver, s, p) ==
    IF p > Len(s) THEN <<>> ELSE PieceAt(driver, s, p) \o JoinPieces(driver, s, p + 1)

\* C2: on success the n-th placeholder occurrence is replaced by "$n" under
\* "pgx" and by "?" under every other driver, and the text outside the
\* occurrences is unchanged.
C2_MarkersByDriver ==
    (pc = "done" /\ err.isNil) => sql = JoinPieces(Driver, query, 1)

\* ":a,:b" under pgx becomes "$1,$2".
C2_Witness ==
    /\ pc = "done"
    /\ Driver = "pgx"
    /\ query = <<":", "a", ",", ":", "b">>
    /\ err.isNil
    /\ sql = <<"$", "1", ",", "$", "2">>

\* The first occurrence whose key the mapping lacks.
FirstMissing(s, vm) ==
    CHOOSE i \in OccStarts(s) :
        /\ OccKey(s, i) \notin DOMAIN vm
        /\ \A j \in OccStarts(s) : j < i => OccKey(s, j) \in DOMAIN vm

\* C3: with a referenced key absent from the mapping, generateQuery fails
\* with the error naming the first such key, the empty SQL and a nil
\* argument list, whatever resolved before and whatever the driver.
C3_MissingKeyFails ==
    (pc = "done" /\ ~AllKeysPresent(query, valuesMap)) =>
        /\ ~err.isNil
        /\ err.msg = OccKey(query, FirstMissing(query, valuesMap)) \o <<" not found in metric">>
        /\ sql = <<>>
        /\ values.isNil /\ values.elems = <<>>

\* ":a,:b": a resolves, b is missing.
C3_Witness ==
    /\ pc = "done"
    /\ query = <<":", "a", ",", ":", "b">>
    /\ KeyA \in DOMAIN valuesMap /\ KeyB \notin DOMAIN valuesMap
    /\ err = Errorf(<<"b", " not found in metric">>)

\* The bare colons of s: those no identifier character follows.
BareColons(s) == {i \in OccStarts(s) : i = Len(s) \/ ~IsIdentChar(s[i + 1])}

CountOf(s, c) == Cardinality({p \in 1..Len(s) : s[p] = c})

\* C9: a ':' that no identifier character follows is an occurrence with the
\* empty key: the template compiles only if the mapping has the key "", and
\* then the bare ':' takes its place in the argument order and is replaced
\* by a marker like any other occurrence.
C9_BareColonIsEmptyKey ==
    (pc = "done" /\ BareColons(query) # {}) =>
        /\ (<<>> \notin DOMAIN valuesMap) => ~err.isNil
        /\ err.isNil =>
              /\ <<>> \in DOMAIN valuesMap
              /\ \A i \in BareColons(query) :
                    /\ Ordinal(query, i) <= Len(values.elems)
                    /\ values.elems[Ordinal(query, i)] = valuesMap[<<>>]
              /\ CountOf(sql, ":") = 0
              /\ CountOf(sql, IF Driver = "pgx" THEN "$" ELSE "?") = CountOf(query, ":")
        /\ ( /\ <<>> \notin DOMAIN valuesMap
             /\ \A i \in OccStarts(query) \ BareColons(query) :
                   OccKey(query, i) \in DOMAIN valuesMap ) =>
              err.msg = <<" not found in metric">>

\* "::a:" under pgx with "" and a mapped: three occurrences, two of them bare.
C9_Witness ==
    /\ pc = "done"
    /\ Driver = "pgx"
    /\ query = <<":", ":", "a", ":">>
    /\ <<>> \in DOMAIN valuesMap /\ KeyA \in DOMAIN valuesMap
    /\ valuesMap[<<>>] = "v2" /\ valuesMap[KeyA] = "v1"
    /\ values.elems = <<"v2", "v1", "v2">>
    /\ sql = <<"$", "1", "$", "2", "$", "3">>

-----------------------------------------------------------------------------
(* The value mapping *)

\* WriteMetric has built the mapping for metrics[mi] and not yet returned.
MappingBuilt == pc \in {"Begin", "Prepare", "StmtExec", "Commit", "Exec", "Return"}

\* C4: the mapping built for a metric gives every key the field value if the
\* metric has such a field, else the tag value, else the configured default,
\* else the metric name for "metric" and the metric time for "timestamp"; a
\* default, tag or field named "metric" or "timestamp" overrides the built-in.
C4_FieldTagDefaultBuiltin ==
    MappingBuilt =>
        LET m == metrics[mi]
        IN  /\ DOMAIN valuesMap = DOMAIN m.fields \cup DOMAIN m.tags
                                    \cup DOMAIN DefaultValues \cup {KeyMetric, KeyTimestamp}
            /\ \A k \in DOMAIN valuesMap :
                  valuesMap[k] =
                      IF k \in DOMAIN m.fields THEN m.fields[k]
                      ELSE IF k \in DOMAIN m.tags THEN m.tags[k]
                      ELSE IF k \in DOMAIN DefaultValues THEN DefaultValues[k]
                      ELSE IF k = KeyMetric THEN m.name
                      ELSE m.tm

\* A field and a tag named "metric", a tag and a default named "timestamp",
\* a default alone named "a".
C4_Witness ==
    /\ MappingBuilt
    /\ DOMAIN metrics[mi].fields = {KeyMetric}
    /\ DOMAIN metrics[mi].tags = {KeyMetric, KeyTimestamp}
    /\ DOMAIN DefaultValues = {KeyTimestamp, KeyA}
    /\ valuesMap[KeyMetric] = "fv"
    /\ valuesMap[KeyTimestamp] = "tv"
    /\ valuesMap[KeyA] = "dv"

-----------------------------------------------------------------------------
(* Write *)

\* The keys the mapping of metric m has, whatever their values.
KeysOf(m) ==
    {KeyMetric, KeyTimestamp} \cup DOMAIN DefaultValues
        \cup DOMAIN metrics[m].tags \cup DOMAIN metrics[m].fields

\* Template q lacks a key when compiled for metric m.
Missing(m, q) == \E i \in OccStarts(Queries[q]) : OccKey(Queries[q], i) \notin KeysOf(m)

Pairs == (1..Len(metrics)) \X (1..Len(Queries))

\* Batch order, then list order.
Precedes(a, b) == a[1] < b[1] \/ (a[1] = b[1] /\ a[2] < b[2])

MissingPairs == {x \in Pairs : Missing(x[1], x[2])}

FirstMissingPair == CHOOSE x \in MissingPairs : \A y \in MissingPairs : ~Precedes(y, x)

\* The statement of template q for metric m has been executed for good.
Executed(m, q) ==
    \E i \in 1..Len(calls) :
        /\ calls[i].m = m /\ calls[i].q = q /\ calls[i].ok
        /\ calls[i].op = IF Driver = "clickhouse" THEN "Commit" ELSE "Exec"

AllCallsOk == \A i \in 1..Len(calls) : calls[i].ok

\* C5: Write goes through the metrics in batch order and the templates in
\* list order; once template q of metric m lacks a key, nothing is executed
\* for it, for a later template of m or for a later metric, what was executed
\* before stays executed, and Write returns that missing-key error.
C5_MissingKeyStopsWrite ==
    /\ \A i, j \in 1..Len(calls) :
          i < j => ~Precedes(<<calls[j].m, calls[j].q>>, <<calls[i].m, calls[i].q>>)
    /\ \A x \in MissingPairs : \A i \in 1..Len(calls) :
          Precedes(<<calls[i].m, calls[i].q>>, x)
    /\ (pc = "done" /\ writeErr.isNil) =>
          /\ MissingPairs = {}
          /\ \A x \in Pairs : Executed(x[1], x[2])
    /\ (pc = "done" /\ AllCallsOk /\ MissingPairs # {}) =>
          LET x == FirstMissingPair
              key == OccKey(Queries[x[2]],
                            CHOOSE i \in OccStarts(Queries[x[2]]) :
                                /\ OccKey(Queries[x[2]], i) \notin KeysOf(x[1])
                                /\ \A j \in OccStarts(Queries[x[2]]) :
                                      j < i => OccKey(Queries[x[2]], j) \in KeysOf(x[1]))
          IN  /\ writeErr = Errorf(key \o <<" not found in metric">>)
              /\ \A y \in Pairs : Precedes(y, x) => Executed(y[1], y[2])
              /\ \A i \in 1..Len(txs) : txs[i] = "committed"

\* The second metric lacks b for the second template, after three statements
\* were executed.
C5_Witness ==
    /\ pc = "done"
    /\ Len(metrics) = 2 /\ Len(Queries) = 2
    /\ MissingPairs = {<<2, 2>>}
    /\ FirstMissingPair = <<2, 2>>
    /\ writeErr = Errorf(<<"b", " not found in metric">>)
    /\ Len(calls) >= 3
    /\ AllCallsOk

-----------------------------------------------------------------------------
(* The execution of a compiled template *)

\* WriteMetric has returned to Write.
Returned == pc \in {"WriteErrCheck", "Write", "done"}

\* The calls made for template q of metric m, oldest first.
CallsFor(m, q) == SelectSeq(calls, LAMBDA c : c.m = m /\ c.q = q)

OpsOf(cs) == [i \in 1..Len(cs) |-> cs[i].op]

IsPrefix(a, b) == Len(a) <= Len(b) /\ SubSeq(b, 1, Len(a)) = a

\* The compiled statement of template q for metric m.
Compiled(m, q) == generateQuery(Driver, Queries[q], BuildValuesMap(DefaultValues, metrics[m]))

\* The phase an error names, by the call that failed.
PhaseOf(op) ==
    IF op = "Begin" THEN "begin"
    ELSE IF op = "Prepare" THEN "prepare"
    ELSE IF op = "Commit" THEN "commit"
    ELSE "execution"

\* C8: under "clickhouse" a compiled template is executed as begin, prepare,
\* execute with the argument list, commit, stopping at the first step that
\* fails with an error naming that phase, and every statement prepared is
\* closed once WriteMetric has returned; under any other driver it is
\* executed by one direct Exec, with no transaction.
C8_ClickhouseLifecycle ==
    /\ \A i \in 1..Len(calls) :
          LET compiled == Compiled(calls[i].m, calls[i].q)
          IN  /\ i < Len(calls) => calls[i].ok
              /\ calls[i].op \in {"Prepare", "StmtExec", "Exec"} =>
                    compiled.err.isNil /\ calls[i].sql = compiled.sql
              /\ calls[i].op \in {"StmtExec", "Exec"} => calls[i].args = compiled.values
    /\ (Len(calls) > 0 /\ ~calls[Len(calls)].ok /\ pc \in {"Return", "WriteErrCheck", "done"}) =>
          /\ ~retErr.isNil
          /\ retErr.msg[1] = PhaseOf(calls[Len(calls)].op) \o " failed: "
          /\ pc = "done" => writeErr = retErr
    /\ Driver = "clickhouse" =>
          /\ \A x \in Pairs :
                IsPrefix(OpsOf(CallsFor(x[1], x[2])), <<"Begin", "Prepare", "StmtExec", "Commit">>)
          /\ Len(stmts) = Cardinality({i \in 1..Len(calls) : calls[i].op = "Prepare" /\ calls[i].ok})
          /\ Returned => \A i \in 1..Len(stmts) : stmts[i].closed
    /\ Driver # "clickhouse" =>
          /\ \A x \in Pairs : IsPrefix(OpsOf(CallsFor(x[1], x[2])), <<"Exec">>)
          /\ txs = <<>> /\ stmts = <<>>

\* Two statements were prepared, the commit of the second failed, and both
\* are closed once WriteMetric has returned.
C8_Witness ==
    /\ Driver = "clickhouse"
    /\ pc = "WriteErrCheck"
    /\ Len(stmts) = 2
    /\ stmts[1].closed /\ stmts[2].closed
    /\ calls[Len(calls)].op = "Commit" /\ ~calls[Len(calls)].ok
    /\ retErr = Errorf(<<"commit failed: ", "driver error">>)

\* C10: under "clickhouse" no transaction WriteMetric began is still open
\* once WriteMetric has returned.
C10_NoTransactionLeftOpen ==
    (Driver = "clickhouse" /\ Returned) => \A i \in 1..Len(txs) : txs[i] # "open"

-----------------------------------------------------------------------------
(* deriveDatatype *)

\* C6: deriveDatatype returns the table's default type name, and logs, for a
\* value of a type the switch does not name and for a uint64 under a
\* conversion style that is neither "unsigned_suffix" nor "literal"; for the
\* named types it returns their table entries.
C6_FallsBackToDefault ==
    pc = "done" =>
        IF \/ value \notin SwitchedTypes
           \/ value = "uint64" /\ Convert.ConversionStyle \notin {"unsigned_suffix", "literal"}
        THEN datatype = Convert.Defaultvalue /\ Len(Log) = 1
        ELSE /\ Log = <<>>
             /\ value = "int64" => datatype = Convert.Integer
             /\ value = "float64" => datatype = Convert.Real
             /\ value = "string" => datatype = Convert.Text
             /\ value = "bool" => datatype = Convert.Bool
             /\ (value = "uint64" /\ Convert.ConversionStyle = "unsigned_suffix") =>
                   datatype = Convert.Integer \o " " \o Convert.Unsigned
             /\ (value = "uint64" /\ Convert.ConversionStyle = "literal") =>
                   datatype = Convert.Unsigned

-----------------------------------------------------------------------------
(* quoteIdent *)

\* Of the runes drawn, those unicode.IsPrint accepts: '"', '_', 'a',
\* U+10000 and U+1F600.
PrintableRunes == {34, 95, 97, 65536, 128512}

\* Remove the surrounding quotes, then make one of every doubled quote.
RECURSIVE CollapseQuotes(_)
CollapseQuotes(s) ==
    IF s = <<>> THEN <<>>
    ELSE IF Len(s) >= 2 /\ s[1] = QuoteRune /\ s[2] = QuoteRune
         THEN <<QuoteRune>> \o CollapseQuotes(SubSeq(s, 3, Len(s)))
         ELSE <<s[1]>> \o CollapseQuotes(Tail(s))

Unquote(s) == CollapseQuotes(SubSeq(s, 2, Len(s) - 1))

\* The quotes of s are doubled in q, inside its surrounding quotes.
QuotesDoubled(s, q) ==
    /\ Len(q) >= 2 /\ q[1] = QuoteRune /\ q[Len(q)] = QuoteRune
    /\ Len(q) = Len(s) + 2 + CountOf(s, QuoteRune)
    /\ CountOf(q, QuoteRune) = 2 * CountOf(s, QuoteRune) + 2

\* C7 as stated: a name of printable runes survives quoting and unquoting,
\* its quotes are doubled, and only non-printable runes become '_'.
C7_PrintableRoundTrip ==
    pc = "done" =>
        /\ (\A i \in 1..Len(name) : name[i] \in PrintableRunes) => Unquote(quoted) = name
        /\ QuotesDoubled(name, quoted)
        /\ Len(Unquote(quoted)) = Len(name)
        /\ \A i \in 1..Len(name) :
              Unquote(quoted)[i] # name[i] =>
                  Unquote(quoted)[i] = UnderscoreRune /\ name[i] \notin PrintableRunes

\* C7 amended: a name of runes U+0001 to U+FFFF survives quoting and
\* unquoting, its quotes are doubled, and only the runes outside U+0001 to
\* U+FFFF become '_'.
C7_AllowedRangeRoundTrip ==
    pc = "done" =>
        /\ (\A i \in 1..Len(name) : name[i] >= MinAllowedRune /\ name[i] <= MaxAllowedRune)
              => Unquote(quoted) = name
        /\ QuotesDoubled(name, quoted)
        /\ Len(Unquote(quoted)) = Len(name)
        /\ \A i \in 1..Len(name) :
              IF name[i] >= MinAllowedRune /\ name[i] <= MaxAllowedRune
              THEN Unquote(quoted)[i] = name[i]
              ELSE Unquote(quoted)[i] = UnderscoreRune

\* a"" with a control character after it: the quotes double, the control
\* character stays.
C7_Witness ==
    /\ pc = "done"
    /\ name = <<97, 34, 1>>
    /\ quoted = <<34, 97, 34, 34, 1, 34>>

=============================================================================
